---- MODULE Spec2Model ----
(***************************************************************************)
(* Model of the bank-tool scraper: the FDIC website Resolver               *)
(* (findBankWebsiteOnFDIC), the Offer Detector                             *)
(* (analyzeBankWebsiteForOffers), the argument parser                      *)
(* (getBankNameFromArgs) and the main try/catch/finally execution.         *)
(* Texts are sequences of one-character strings so that the regular        *)
(* expressions of the source are matched character by character.           *)
(***************************************************************************)
EXTENDS Integers, Sequences, FiniteSets, TLC

(***************************************************************************)
(* Bounds of the model.                                                    *)
(***************************************************************************)
MaxSections == 2
MaxLinks == 2
MaxPct == 12
CasePeriod == 3

(***************************************************************************)
(* Characters and letter case.                                             *)
(***************************************************************************)
UpperChars ==
  <<"A","B","C","D","E","F","G","H","I","J","K","L","M",
    "N","O","P","Q","R","S","T","U","V","W","X","Y","Z">>

LowerChars ==
  <<"a","b","c","d","e","f","g","h","i","j","k","l","m",
    "n","o","p","q","r","s","t","u","v","w","x","y","z">>

ToUpper(ch) ==
  IF \E k \in 1..26 : LowerChars[k] = ch
  THEN UpperChars[CHOOSE k \in 1..26 : LowerChars[k] = ch]
  ELSE ch

ToLower(ch) ==
  IF \E k \in 1..26 : UpperChars[k] = ch
  THEN LowerChars[CHOOSE k \in 1..26 : UpperChars[k] = ch]
  ELSE ch

\* Variant: the pattern without the i flag.
Canonicalize_caseSensitive(ch) == ch

\* The i flag of a RegExp: two characters are equal when their canonical
\* (upper-cased) forms are equal.
Canonicalize(ch) == ToUpper(ch)

\* The \s class, restricted to the white space the model's texts use.
IsWhiteSpace(ch) == ch \in {" ", "\t", "\n"}

\* The literal lit occurs in text t at position i (1-based), ignoring case.
LiteralAt(t, i, lit) ==
  /\ i >= 1
  /\ i + Len(lit) - 1 <= Len(t)
  /\ \A k \in 1..Len(lit) : Canonicalize(t[i + k - 1]) = Canonicalize(lit[k])

\* Positions right after a non-empty run of white space starting at i: \s+
AfterSpaces(t, i) ==
  { j \in (i + 1)..(Len(t) + 1) : \A k \in i..(j - 1) : IsWhiteSpace(t[k]) }

\* Positions right after one of the literals of an alternation starting at i.
AfterAlternation(t, i, lits) ==
  { i + Len(lit) : lit \in { l \in lits : LiteralAt(t, i, l) } }

S_0pct == <<"0","%">>
S_zeroPercent == <<"z","e","r","o"," ","p","e","r","c","e","n","t">>
S_introductory == <<"i","n","t","r","o","d","u","c","t","o","r","y">>
S_apr == <<"a","p","r">>
S_interest == <<"i","n","t","e","r","e","s","t">>
S_business == <<"b","u","s","i","n","e","s","s">>

\* /business/i .test(t)
businessRegex(t) ==
  \E i \in 1..Len(t) : LiteralAt(t, i, S_business)

\* Positions after (introductory\s+)? starting at i: the group may be skipped.
AfterQualifier(t, i) ==
  {i} \cup UNION { AfterSpaces(t, j) : j \in AfterAlternation(t, i, {S_introductory}) }

\* /(0%|zero percent)\s+(introductory\s+)?(apr|interest)/i matches at i.
OfferMatchAt(t, i) ==
  \E a \in AfterAlternation(t, i, {S_0pct, S_zeroPercent}) :
    \E b \in AfterSpaces(t, a) :
      \E c \in AfterQualifier(t, b) :
        AfterAlternation(t, c, {S_apr, S_interest}) # {}

\* offerRegex.test(t): the pattern is not anchored, any start position counts.
offerRegex(t) ==
  \E i \in 1..Len(t) : OfferMatchAt(t, i)

(***************************************************************************)
(* getBankNameFromArgs.                                                    *)
(***************************************************************************)
S_bankFlag == <<"-","-","b","a","n","k","=">>

StartsWith(s, prefix) ==
  /\ Len(prefix) <= Len(s)
  /\ \A k \in 1..Len(prefix) : s[k] = prefix[k]

\* String.prototype.split with a one-character separator.
RECURSIVE SplitFrom(_, _, _, _)
SplitFrom(s, sep, i, cur) ==
  IF i > Len(s) THEN <<cur>>
  ELSE IF s[i] = sep THEN <<cur>> \o SplitFrom(s, sep, i + 1, <<>>)
  ELSE SplitFrom(s, sep, i + 1, Append(cur, s[i]))

Split(s, sep) == SplitFrom(s, sep, 1, <<>>)

\* Array.prototype.find: the first element that satisfies the test, or
\* undefined (modelled as the index 0).
FindBankArg(args) ==
  IF \E k \in 1..Len(args) : StartsWith(args[k], S_bankFlag)
  THEN CHOOSE k \in 1..Len(args) :
         /\ StartsWith(args[k], S_bankFlag)
         /\ \A m \in 1..(k - 1) : ~StartsWith(args[m], S_bankFlag)
  ELSE 0

\* JavaScript truthiness of a string: every string but the empty one.
TruthyString(s) == s # <<>>

ConfigError == "Please provide a valid bank name."

\* The result of getBankNameFromArgs: [ok |-> TRUE, value |-> name] or a
\* thrown Error.
getBankNameFromArgs(args) ==
  LET k == FindBankArg(args) IN
  IF k # 0 /\ Len(Split(args[k], "=")) > 1 /\ TruthyString(Split(args[k], "=")[2])
  THEN [ok |-> TRUE, value |-> Split(args[k], "=")[2]]
  ELSE [ok |-> FALSE, value |-> <<>>]

(***************************************************************************)
(* Inputs of a run: command lines and the texts a page section may show.   *)
(***************************************************************************)
A_node == <<"n","o","d","e">>
A_script == <<"s","r","c","/","s","c","r","a","p","e",".","t","s">>
A_bankAcme == <<"-","-","b","a","n","k","=","A","c","m","e">>
A_bankEmpty == <<"-","-","b","a","n","k","=">>
A_bankTwoEq == <<"-","-","b","a","n","k","=","A","=","B">>
A_bankNoEq == <<"-","-","b","a","n","k">>
A_headless == <<"-","-","h","e","a","d","l","e","s","s">>

\* process.argv of the runs the model explores.
Argvs ==
  { <<A_node, A_script>>,
    <<A_node, A_script, A_bankNoEq>>,
    <<A_node, A_script, A_bankEmpty>>,
    <<A_node, A_script, A_bankAcme>>,
    <<A_node, A_script, A_headless, A_bankTwoEq>>,
    <<A_node, A_script, A_bankEmpty, A_bankAcme>> }

T_both == <<"0","%"," ","I","n","t","r","o","d","u","c","t","o","r","y"," ","A","P","R"," ","f","o","r"," ","B","u","s","i","n","e","s","s"," ","m","e","m","b","e","r","s">>
T_businessOnly == <<"B","u","s","i","n","e","s","s"," ","R","e","w","a","r","d","s"," ","C","a","r","d">>
T_offerOnly == <<"0","%"," ","i","n","t","e","r","e","s","t"," ","f","o","r"," ","1","2"," ","m","o","n","t","h","s">>
T_neither == <<"C","a","s","h"," ","B","a","c","k">>

\* Texts of the sections of the analysed page.
SectionTexts == {T_both, T_businessOnly, T_offerOnly, T_neither}

RECURSIVE SeqsOfLen(_, _)
SeqsOfLen(S, n) ==
  IF n = 0 THEN {<<>>}
  ELSE { Append(s, x) : s \in SeqsOfLen(S, n - 1), x \in S }

\* The section lists a page may have, in DOM document order.
SectionLists == UNION { SeqsOfLen(SectionTexts, n) : n \in 0..MaxSections }

(***************************************************************************)
(* URLs and pages.                                                         *)
(***************************************************************************)
Null == "null"
Blank == "about:blank"
FdicUrl == "https://banks.data.fdic.gov/bankfind-suite/bankfind"

\* The bank sites the continue-navigation control may lead to.
SiteUrls == {"https://examplebank.com", "https://www.acmebank.com"}

\* Where the first link labelled Business / Credit Card of a page leads.
BusinessPage(u) == u \o "/business"
CreditCardPage(u) == u \o "/credit-cards"

\* JavaScript truthiness of a string | null value.
Truthy(v) == v # Null /\ v # ""

PageIds == {"fdicPage", "newPage", "bankPage"}
NoPage == [origin |-> "none", url |-> Blank, loaded |-> FALSE, users |-> {}]

\* The steps of the program that drive the browser.
Steps ==
  { "launch", "newContext", "newFdicPage", "newBankPage",
    "r_goto", "r_fill", "r_search", "r_waitResult", "r_count", "r_clickLink",
    "r_modal", "r_waitEvent", "r_continue", "r_load", "r_url",
    "d_goto", "d_cookie", "d_business", "d_creditCard", "d_url", "d_wait",
    "d_all", "d_innerText", "close" }

NoVerdict == [found |-> FALSE, analyzedUrl |-> Null, made |-> FALSE]

VARIABLES
  pc,              \* position of the main flow
  argv,            \* process.argv
  bankName,        \* const bankName (line 126)
  browser,         \* "none", "open" or "closed"
  closeCount,      \* number of browser.close() calls
  contexts,        \* number of browser contexts created
  pages,           \* the pages of the context
  officialWebsite, \* the result of the Resolver (line 133)
  err,             \* the pending or caught error, Null when none
  raisedAt,        \* the step that threw, Null when none
  caught,          \* the catch block ran
  uncaught,        \* an error left the module
  exitCode,        \* exit status of the process, -1 while running
  log,             \* console lines, in order
  calls,           \* component invocations, in order
  attempts,        \* how many times each step was attempted
  opsAfterClose,   \* a step drove the browser after browser.close()
  count,           \* const count (line 36), -1 before
  listening,       \* waitForEvent('page') is registered
  clickState,      \* continueButton.click(): "idle", "pending", "done", "failed"
  captured,        \* the page yielded by the 'page' event, Null before
  resolverResult,  \* "none", "absent", "url" or "raised"
  bankUrl,         \* parameter of the Offer Detector
  finalUrl,        \* const finalUrl (line 83)
  cardSections,    \* const cardSections (line 96)
  index,           \* loop index over cardSections (1-based)
  sectionText,     \* const sectionText (line 103)
  isBusinessCard,  \* const isBusinessCard (line 104)
  hasOffer,        \* const hasOffer (line 105)
  scanned,         \* indexes of the sections whose text was read
  analysis,        \* the verdict returned by the Offer Detector
  family           \* the family the classified text was drawn from

vars ==
  << pc, argv, bankName, browser, closeCount, contexts, pages,
     officialWebsite, err, raisedAt, caught, uncaught, exitCode, log, calls,
     attempts, opsAfterClose, count, listening, clickState, captured,
     resolverResult, bankUrl, finalUrl, cardSections, index, sectionText,
     isBusinessCard, hasOffer, scanned, analysis, family >>

mainVars == << argv, bankName, contexts, officialWebsite, caught, uncaught, exitCode >>
resolverVars == << count, listening, clickState, captured, resolverResult >>
detectorVars ==
  << bankUrl, finalUrl, cardSections, index, sectionText, isBusinessCard,
     hasOffer, scanned, analysis >>

InitCommon ==
  /\ bankName = <<>>
  /\ browser = "none"
  /\ closeCount = 0
  /\ contexts = 0
  /\ pages = [p \in PageIds |-> NoPage]
  /\ officialWebsite = Null
  /\ err = Null
  /\ raisedAt = Null
  /\ caught = FALSE
  /\ uncaught = FALSE
  /\ exitCode = -1
  /\ log = <<>>
  /\ calls = <<>>
  /\ attempts = [s \in Steps |-> 0]
  /\ opsAfterClose = FALSE
  /\ count = -1
  /\ listening = FALSE
  /\ clickState = "idle"
  /\ captured = Null
  /\ resolverResult = "none"
  /\ bankUrl = Null
  /\ finalUrl = Null
  /\ cardSections = <<>>
  /\ index = 0
  /\ isBusinessCard = FALSE
  /\ hasOffer = FALSE
  /\ scanned = {}
  /\ analysis = NoVerdict

\* The process starts: nothing launched yet, any command line.
Init ==
  /\ InitCommon
  /\ pc = "launch"
  /\ argv \in Argvs
  /\ sectionText = <<>>
  /\ family = "none"

(***************************************************************************)
(* Bookkeeping shared by the steps.                                        *)
(***************************************************************************)
\* A step drives the browser: count the attempt, note a use after close.
Attempt(step) ==
  /\ attempts' = [attempts EXCEPT ![step] = @ + 1]
  /\ opsAfterClose' = (opsAfterClose \/ browser = "closed")

Logged(line) == log' = Append(log, line)

\* The page p is operated on by component who.
UsedBy(pg, p, who) == [pg EXCEPT ![p].users = @ \cup {who}]

\* Where control goes when a statement of the try block throws: the catch
\* clause, and after it the finally clause (lines 152-157).
\* Variant: a thrown error is swallowed where it occurs and main goes on
\* with the test of the Resolver's result.
AfterThrow_swallowed == "m_check"

AfterThrow == "catch"

\* Variant: the close is not in a finally clause, a caught error skips it.
AfterCatch_skipClose == "exit"

AfterCatch == "finally"

\* A step of the try block throws a timeout error.
Throw(step) ==
  /\ err' = "TimeoutError"
  /\ raisedAt' = step
  /\ pc' = AfterThrow

(***************************************************************************)
(* Main execution, lines 121-157.                                          *)
(***************************************************************************)
\* line 123: const browser = await chromium.launch(...), outside the try.
Launch ==
  /\ pc = "launch"
  /\ Attempt("launch")
  /\ \/ /\ browser' = "open"
        /\ pc' = "args"
        /\ UNCHANGED << uncaught, err, raisedAt >>
     \/ /\ uncaught' = TRUE
        /\ err' = "TimeoutError"
        /\ raisedAt' = "launch"
        /\ pc' = "exit"
        /\ UNCHANGED browser
  /\ Logged("Scraper starting...")
  /\ UNCHANGED << argv, bankName, closeCount, contexts, pages, officialWebsite,
                  caught, exitCode, calls >>
  /\ UNCHANGED resolverVars
  /\ UNCHANGED detectorVars
  /\ UNCHANGED family

\* line 126: const bankName = getBankNameFromArgs()
ParseArgs ==
  /\ pc = "args"
  /\ LET r == getBankNameFromArgs(argv) IN
       IF r.ok
       THEN /\ bankName' = r.value
            /\ pc' = "newContext"
            /\ UNCHANGED << err, raisedAt >>
       ELSE /\ err' = ConfigError
            /\ raisedAt' = "args"
            /\ pc' = AfterThrow
            /\ UNCHANGED bankName
  /\ UNCHANGED << argv, browser, closeCount, contexts, pages, officialWebsite,
                  caught, uncaught, exitCode, log, calls, attempts,
                  opsAfterClose >>
  /\ UNCHANGED resolverVars
  /\ UNCHANGED detectorVars
  /\ UNCHANGED family

\* lines 128-130: const context = await browser.newContext(...)
NewContext ==
  /\ pc = "newContext"
  /\ Attempt("newContext")
  /\ contexts' = contexts + 1
  /\ pc' = "newPage1"
  /\ UNCHANGED << argv, bankName, browser, closeCount, pages, officialWebsite,
                  err, raisedAt, caught, uncaught, exitCode, log, calls >>
  /\ UNCHANGED resolverVars
  /\ UNCHANGED detectorVars
  /\ UNCHANGED family

\* line 132: const fdicPage = await context.newPage()
NewFdicPage ==
  /\ pc = "newPage1"
  /\ Attempt("newFdicPage")
  /\ pages' = [pages EXCEPT !["fdicPage"] =
                 [origin |-> "allocated", url |-> Blank, loaded |-> TRUE, users |-> {}]]
  /\ pc' = "r_call"
  /\ UNCHANGED << argv, bankName, browser, closeCount, contexts, officialWebsite,
                  err, raisedAt, caught, uncaught, exitCode, log, calls >>
  /\ UNCHANGED resolverVars
  /\ UNCHANGED detectorVars
  /\ UNCHANGED family

(***************************************************************************)
(* The Resolver: findBankWebsiteOnFDIC, lines 26-59.                       *)
(***************************************************************************)
\* A statement of the Resolver throws: the error leaves the function.
ResolverThrows(step) ==
  /\ Throw(step)
  /\ resolverResult' = "raised"

\* line 133: the call, and line 27: the first log line.
CallResolver ==
  /\ pc = "r_call"
  /\ calls' = Append(calls, "R")
  /\ Logged("(1/2) Searching FDIC")
  /\ pc' = "r_goto"
  /\ UNCHANGED << browser, closeCount, pages, err, raisedAt, attempts, opsAfterClose >>
  /\ UNCHANGED mainVars
  /\ UNCHANGED resolverVars
  /\ UNCHANGED detectorVars
  /\ UNCHANGED family

\* line 29: await page.goto(FDIC, { waitUntil: 'domcontentloaded' })
ResolverGoto ==
  /\ pc = "r_goto"
  /\ Attempt("r_goto")
  /\ \/ /\ pages' = [UsedBy(pages, "fdicPage", "R") EXCEPT !["fdicPage"].url = FdicUrl]
        /\ pc' = "r_fill"
        /\ UNCHANGED << err, raisedAt, resolverResult >>
     \/ /\ pages' = UsedBy(pages, "fdicPage", "R")
        /\ ResolverThrows("r_goto")
  /\ UNCHANGED << browser, closeCount, log, calls >>
  /\ UNCHANGED mainVars
  /\ UNCHANGED << count, listening, clickState, captured >>
  /\ UNCHANGED detectorVars
  /\ UNCHANGED family

\* A statement of the Resolver that waits on the FDIC page and changes no
\* variable of the program: it completes, or it times out and throws.
ResolverWait(here, step, next, line) ==
  /\ pc = here
  /\ Attempt(step)
  /\ pages' = UsedBy(pages, "fdicPage", "R")
  /\ \/ /\ pc' = next
        /\ log' = IF line = Null THEN log ELSE Append(log, line)
        /\ UNCHANGED << err, raisedAt, resolverResult >>
     \/ /\ ResolverThrows(step)
        /\ UNCHANGED log
  /\ UNCHANGED << browser, closeCount, calls >>
  /\ UNCHANGED mainVars
  /\ UNCHANGED << count, listening, clickState, captured >>
  /\ UNCHANGED detectorVars
  /\ UNCHANGED family

\* line 30: await page.getByPlaceholder('Enter Bank Name').fill(bankName)
ResolverFill == ResolverWait("r_fill", "r_fill", "r_search", Null)

\* line 31: await page.locator('#findBankSearch').click()
ResolverSearch == ResolverWait("r_search", "r_search", "r_waitResult", Null)

\* line 32: await page.locator('#search-result-card-0').waitFor()
ResolverWaitResult == ResolverWait("r_waitResult", "r_waitResult", "r_count", Null)

\* line 37: if (count === 0)
\* Variant: the zero-link test never succeeds.
NoLinkFound_never(n) == n < 0

NoLinkFound(n) == n = 0

\* lines 34-40: count the primary-website links of the first result and
\* return null when there is none.
ResolverCount ==
  /\ pc = "r_count"
  /\ Attempt("r_count")
  /\ pages' = UsedBy(pages, "fdicPage", "R")
  /\ \E n \in 0..MaxLinks :
       /\ count' = n
       /\ IF NoLinkFound(n)
          THEN /\ Logged("No link found in the first result")
               /\ resolverResult' = "absent"
               /\ officialWebsite' = Null
               /\ pc' = "m_check"
          ELSE /\ pc' = "r_clickLink"
               /\ UNCHANGED << log, resolverResult, officialWebsite >>
  /\ UNCHANGED << browser, closeCount, err, raisedAt, calls >>
  /\ UNCHANGED << argv, bankName, contexts, caught, uncaught, exitCode >>
  /\ UNCHANGED << listening, clickState, captured >>
  /\ UNCHANGED detectorVars
  /\ UNCHANGED family

\* line 42: await resultLink.click()
ResolverClickLink == ResolverWait("r_clickLink", "r_clickLink", "r_modal", Null)

\* lines 44-46: await modal.waitFor()
ResolverWaitModal ==
  ResolverWait("r_modal", "r_modal", "r_race", "Modal container detected.")

\* Variant: the click is issued without a waiter for the 'page' event.
WaiterRegisteredAtClick_late == FALSE

\* lines 51-52: waitForEvent('page') is the first element of the array, so
\* the waiter is registered when continueButton.click() is issued.
WaiterRegisteredAtClick == TRUE

\* lines 50-53: the array of Promise.all is evaluated: waitForEvent('page')
\* is called first, then continueButton.click(); both are then pending.
ResolverRaceStart ==
  /\ pc = "r_race"
  /\ clickState = "idle"
  /\ attempts' = [attempts EXCEPT !["r_waitEvent"] = @ + 1, !["r_continue"] = @ + 1]
  /\ opsAfterClose' = (opsAfterClose \/ browser = "closed")
  /\ pages' = UsedBy(pages, "fdicPage", "R")
  /\ listening' = WaiterRegisteredAtClick
  /\ clickState' = "pending"
  /\ UNCHANGED << pc, browser, closeCount, err, raisedAt, log, calls >>
  /\ UNCHANGED mainVars
  /\ UNCHANGED << count, captured, resolverResult >>
  /\ UNCHANGED detectorVars
  /\ UNCHANGED family

\* The browser: the click on the continue control opens a new tab in the
\* context; the 'page' event hands it to the registered waiter.
TabOpens ==
  /\ browser = "open"
  /\ clickState \in {"pending", "done"}
  /\ pages["newPage"].origin = "none"
  /\ pages' = [pages EXCEPT !["newPage"] =
                 [origin |-> "popup", url |-> Blank, loaded |-> FALSE, users |-> {}]]
  /\ captured' = IF listening THEN "newPage" ELSE captured
  /\ UNCHANGED << pc, browser, closeCount, err, raisedAt, log, calls, attempts,
                  opsAfterClose >>
  /\ UNCHANGED mainVars
  /\ UNCHANGED << count, listening, clickState, resolverResult >>
  /\ UNCHANGED detectorVars
  /\ UNCHANGED family

\* The browser: the new tab finishes loading the bank's site.
TabLoads ==
  /\ browser = "open"
  /\ pages["newPage"].origin = "popup"
  /\ ~pages["newPage"].loaded
  /\ \E u \in SiteUrls :
       pages' = [pages EXCEPT !["newPage"].url = u, !["newPage"].loaded = TRUE]
  /\ UNCHANGED << pc, browser, closeCount, err, raisedAt, log, calls, attempts,
                  opsAfterClose >>
  /\ UNCHANGED mainVars
  /\ UNCHANGED resolverVars
  /\ UNCHANGED detectorVars
  /\ UNCHANGED family

\* The browser: continueButton.click() completes.
ClickCompletes ==
  /\ browser = "open"
  /\ clickState = "pending"
  /\ clickState' = "done"
  /\ UNCHANGED << pc, browser, closeCount, pages, err, raisedAt, log, calls,
                  attempts, opsAfterClose >>
  /\ UNCHANGED mainVars
  /\ UNCHANGED << count, listening, captured, resolverResult >>
  /\ UNCHANGED detectorVars
  /\ UNCHANGED family

\* continueButton.click() times out: Promise.all rejects.
ClickTimesOut ==
  /\ pc = "r_race"
  /\ clickState = "pending"
  /\ clickState' = "failed"
  /\ ResolverThrows("r_continue")
  /\ UNCHANGED << browser, closeCount, pages, log, calls, attempts, opsAfterClose >>
  /\ UNCHANGED mainVars
  /\ UNCHANGED << count, listening, captured >>
  /\ UNCHANGED detectorVars
  /\ UNCHANGED family

\* Variant: the wait for the 'page' event has no timeout.
EventWaitBounded_noTimeout == FALSE

\* line 51: waitForEvent('page') is called without options, so the default
\* timeout bounds it.
EventWaitBounded == TRUE

\* waitForEvent('page') times out, no page was created: Promise.all rejects.
EventTimesOut ==
  /\ pc = "r_race"
  /\ EventWaitBounded
  /\ listening
  /\ captured = Null
  /\ listening' = FALSE
  /\ ResolverThrows("r_waitEvent")
  /\ UNCHANGED << browser, closeCount, pages, log, calls, attempts, opsAfterClose >>
  /\ UNCHANGED mainVars
  /\ UNCHANGED << count, clickState, captured >>
  /\ UNCHANGED detectorVars
  /\ UNCHANGED family

\* line 50: Promise.all resolves once the event fired and the click completed.
ResolverRaceJoin ==
  /\ pc = "r_race"
  /\ captured # Null
  /\ clickState = "done"
  /\ listening' = FALSE
  /\ pc' = "r_load"
  /\ UNCHANGED << browser, closeCount, pages, err, raisedAt, log, calls, attempts,
                  opsAfterClose >>
  /\ UNCHANGED mainVars
  /\ UNCHANGED << count, clickState, captured, resolverResult >>
  /\ UNCHANGED detectorVars
  /\ UNCHANGED family

\* line 55: await newPage.waitForLoadState()
ResolverWaitLoad ==
  /\ pc = "r_load"
  /\ Attempt("r_load")
  /\ pages' = UsedBy(pages, captured, "R")
  /\ \/ /\ pages[captured].loaded
        /\ Logged("Captured new tab and navigated to bank website.")
        /\ pc' = "r_url"
        /\ UNCHANGED << err, raisedAt, resolverResult >>
     \/ /\ ~pages[captured].loaded
        /\ ResolverThrows("r_load")
        /\ UNCHANGED log
  /\ UNCHANGED << browser, closeCount, calls >>
  /\ UNCHANGED mainVars
  /\ UNCHANGED << count, listening, clickState, captured >>
  /\ UNCHANGED detectorVars
  /\ UNCHANGED family

\* Variant: the URL is read from the page the search ran on.
ReturnedPage_original(newPage) == "fdicPage"

\* line 58: the page whose URL is returned is the one Promise.all yielded.
ReturnedPage(newPage) == newPage

\* line 58: return newPage.url()
ResolverReturnUrl ==
  /\ pc = "r_url"
  /\ Attempt("r_url")
  /\ pages' = UsedBy(pages, ReturnedPage(captured), "R")
  /\ officialWebsite' = pages[ReturnedPage(captured)].url
  /\ resolverResult' = "url"
  /\ pc' = "m_check"
  /\ UNCHANGED << browser, closeCount, err, raisedAt, log, calls >>
  /\ UNCHANGED << argv, bankName, contexts, caught, uncaught, exitCode >>
  /\ UNCHANGED << count, listening, clickState, captured >>
  /\ UNCHANGED detectorVars
  /\ UNCHANGED family

(***************************************************************************)
(* Main execution, continued: lines 135-150.                               *)
(***************************************************************************)
\* line 135: if (officialWebsite)
\* Variant: the Offer Detector is called whatever the Resolver returned.
WebsiteFound_always(v) == TRUE

WebsiteFound(v) == Truthy(v)

\* lines 135-136 and 148-150: branch on the Resolver's result.
CheckWebsite ==
  /\ pc = "m_check"
  /\ IF WebsiteFound(officialWebsite)
     THEN /\ Logged("FDIC Task Complete! Found official website")
          /\ pc' = "newPage2"
     ELSE /\ Logged("Could not find a website")
          /\ pc' = "finally"
  /\ UNCHANGED << browser, closeCount, pages, err, raisedAt, calls, attempts,
                  opsAfterClose >>
  /\ UNCHANGED mainVars
  /\ UNCHANGED resolverVars
  /\ UNCHANGED detectorVars
  /\ UNCHANGED family

\* line 138: const bankPage = await context.newPage()
NewBankPage ==
  /\ pc = "newPage2"
  /\ Attempt("newBankPage")
  /\ pages' = [pages EXCEPT !["bankPage"] =
                 [origin |-> "allocated", url |-> Blank, loaded |-> TRUE, users |-> {}]]
  /\ pc' = "d_call"
  /\ UNCHANGED << browser, closeCount, err, raisedAt, log, calls >>
  /\ UNCHANGED mainVars
  /\ UNCHANGED resolverVars
  /\ UNCHANGED detectorVars
  /\ UNCHANGED family

(***************************************************************************)
(* The Offer Detector: analyzeBankWebsiteForOffers, lines 61-115.          *)
(***************************************************************************)
\* Variant: the Offer Detector is handed the page the Resolver used.
DetectorPage_reused == "fdicPage"

\* line 139: analyzeBankWebsiteForOffers(bankPage, officialWebsite)
DetectorPage == "bankPage"

\* line 139: the call with officialWebsite, and line 62: the first log line.
CallDetector ==
  /\ pc = "d_call"
  /\ calls' = Append(calls, "D")
  /\ bankUrl' = officialWebsite
  /\ Logged("(2/2) Analyzing bank website")
  /\ pc' = "d_goto"
  /\ UNCHANGED << browser, closeCount, pages, err, raisedAt, attempts, opsAfterClose >>
  /\ UNCHANGED mainVars
  /\ UNCHANGED resolverVars
  /\ UNCHANGED << finalUrl, cardSections, index, sectionText, isBusinessCard,
                  hasOffer, scanned, analysis >>
  /\ UNCHANGED family

\* lines 64-65: await page.goto(bankUrl, { ..., timeout: 20000 }), outside
\* any try block of the function.
DetectorGoto ==
  /\ pc = "d_goto"
  /\ Attempt("d_goto")
  /\ \/ /\ pages' = [UsedBy(pages, DetectorPage, "D") EXCEPT ![DetectorPage].url = bankUrl]
        /\ Logged("Page loaded. Looking for cookie banner...")
        /\ pc' = "d_cookie"
        /\ UNCHANGED << err, raisedAt >>
     \/ /\ pages' = UsedBy(pages, DetectorPage, "D")
        /\ Throw("d_goto")
        /\ UNCHANGED log
  /\ UNCHANGED << browser, closeCount, calls >>
  /\ UNCHANGED mainVars
  /\ UNCHANGED resolverVars
  /\ UNCHANGED detectorVars
  /\ UNCHANGED family

\* Variant: the consent click is not guarded, its failure leaves the function.
AfterConsentFailure_unguarded == AfterThrow

\* Variant: a failed consent click is tried again.
AfterConsentFailure_retry == "d_cookie"

\* Variant: a failed consent click skips the optional navigation.
AfterConsentFailure_skipNavigation == "d_url"

\* lines 70-72: the catch clause of the consent click falls through to the
\* optional navigation.
AfterConsentFailure == "d_business"

\* lines 67-72: try { click the consent button } catch { log }
DetectorCookie ==
  /\ pc = "d_cookie"
  /\ Attempt("d_cookie")
  /\ pages' = UsedBy(pages, DetectorPage, "D")
  /\ \/ /\ Logged("Cookie banner accepted.")
        /\ pc' = "d_business"
     \/ /\ Logged("No cookie banner found, or it was not clickable.")
        /\ pc' = AfterConsentFailure
  /\ UNCHANGED << browser, closeCount, err, raisedAt, calls >>
  /\ UNCHANGED mainVars
  /\ UNCHANGED resolverVars
  /\ UNCHANGED detectorVars
  /\ UNCHANGED family

\* lines 74-76 and 79-81: the first hop, to the Business section; a failure
\* is caught and the second hop is skipped.
DetectorBusinessHop ==
  /\ pc = "d_business"
  /\ Attempt("d_business")
  /\ \/ /\ pages' = [UsedBy(pages, DetectorPage, "D") EXCEPT
                       ![DetectorPage].url = BusinessPage(@)]
        /\ Logged("Navigated to Business section.")
        /\ pc' = "d_creditCard"
     \/ /\ pages' = UsedBy(pages, DetectorPage, "D")
        /\ Logged("Could not navigate to a specific credit card section")
        /\ pc' = "d_url"
  /\ UNCHANGED << browser, closeCount, err, raisedAt, calls >>
  /\ UNCHANGED mainVars
  /\ UNCHANGED resolverVars
  /\ UNCHANGED detectorVars
  /\ UNCHANGED family

\* lines 77-81: the second hop, to the Credit Cards section.
DetectorCreditCardHop ==
  /\ pc = "d_creditCard"
  /\ Attempt("d_creditCard")
  /\ \/ /\ pages' = [UsedBy(pages, DetectorPage, "D") EXCEPT
                       ![DetectorPage].url = CreditCardPage(@)]
        /\ Logged("Navigated to Credit Cards section.")
     \/ /\ pages' = UsedBy(pages, DetectorPage, "D")
        /\ Logged("Could not navigate to a specific credit card section")
  /\ pc' = "d_url"
  /\ UNCHANGED << browser, closeCount, err, raisedAt, calls >>
  /\ UNCHANGED mainVars
  /\ UNCHANGED resolverVars
  /\ UNCHANGED detectorVars
  /\ UNCHANGED family

\* Variant: the verdict carries the URL the function was called with.
AnalysisTarget_input(pageUrl, inputUrl) == inputUrl

\* line 83: the analysis target is the page's current URL.
AnalysisTarget(pageUrl, inputUrl) == pageUrl

\* lines 83-84: const finalUrl = page.url()
DetectorRecordUrl ==
  /\ pc = "d_url"
  /\ Attempt("d_url")
  /\ pages' = UsedBy(pages, DetectorPage, "D")
  /\ finalUrl' = AnalysisTarget(pages[DetectorPage].url, bankUrl)
  /\ Logged("Analyzing content on finalUrl")
  /\ pc' = "d_wait"
  /\ UNCHANGED << browser, closeCount, err, raisedAt, calls >>
  /\ UNCHANGED mainVars
  /\ UNCHANGED resolverVars
  /\ UNCHANGED << bankUrl, cardSections, index, sectionText, isBusinessCard,
                  hasOffer, scanned, analysis >>
  /\ UNCHANGED family

\* Variant: the catch clause of the structural wait does not return.
AfterStructuralTimeout_fallThrough == "d_all"

\* line 93: the catch clause of the structural wait returns to the caller.
AfterStructuralTimeout == "m_report"

\* lines 86-94: wait for the first card/offer section; on a timeout return
\* { hasOffer: false, sourceUrl: finalUrl }.
DetectorWaitSections ==
  /\ pc = "d_wait"
  /\ Attempt("d_wait")
  /\ pages' = UsedBy(pages, DetectorPage, "D")
  /\ \/ /\ Logged("Offer sections are loaded.")
        /\ pc' = "d_all"
        /\ UNCHANGED analysis
     \/ /\ Logged("Timed out waiting for card sections to appear.")
        /\ analysis' = [found |-> FALSE, analyzedUrl |-> finalUrl, made |-> TRUE]
        /\ pc' = AfterStructuralTimeout
  /\ UNCHANGED << browser, closeCount, err, raisedAt, calls >>
  /\ UNCHANGED mainVars
  /\ UNCHANGED resolverVars
  /\ UNCHANGED << bankUrl, finalUrl, cardSections, index, sectionText,
                  isBusinessCard, hasOffer, scanned >>
  /\ UNCHANGED family

\* lines 96-100: const cardSections = await page.locator(...).all()
DetectorAllSections ==
  /\ pc = "d_all"
  /\ Attempt("d_all")
  /\ pages' = UsedBy(pages, DetectorPage, "D")
  /\ cardSections' \in SectionLists
  /\ index' = 1
  /\ Logged("Found potential card sections. Analyzing each...")
  /\ pc' = "d_loop"
  /\ UNCHANGED << browser, closeCount, err, raisedAt, calls >>
  /\ UNCHANGED mainVars
  /\ UNCHANGED resolverVars
  /\ UNCHANGED << bankUrl, finalUrl, sectionText, isBusinessCard, hasOffer,
                  scanned, analysis >>
  /\ UNCHANGED family

\* line 107: if (isBusinessCard && hasOffer)
\* Variant: one indicator is enough.
SectionQualifies_either(b, o) == b \/ o

SectionQualifies(b, o) == b /\ o

\* Variant: the iteration skips every other section.
NextIndex_skip(i) == i + 2

\* line 102: for (... of cardSections.entries()) moves to the next section.
NextIndex(i) == i + 1

\* lines 102-111: one iteration of the loop over cardSections.
DetectorScanSection ==
  /\ pc = "d_loop"
  /\ index <= Len(cardSections)
  /\ Attempt("d_innerText")
  /\ pages' = UsedBy(pages, DetectorPage, "D")
  /\ \/ /\ sectionText' = cardSections[index]
        /\ isBusinessCard' = businessRegex(cardSections[index])
        /\ hasOffer' = offerRegex(cardSections[index])
        /\ scanned' = scanned \cup {index}
        /\ IF SectionQualifies(isBusinessCard', hasOffer')
           THEN /\ Logged("SUCCESS: Found a business card section with a 0% offer.")
                /\ analysis' = [found |-> TRUE, analyzedUrl |-> finalUrl, made |-> TRUE]
                /\ pc' = "m_report"
                /\ UNCHANGED index
           ELSE /\ index' = NextIndex(index)
                /\ UNCHANGED << log, analysis, pc >>
        /\ UNCHANGED << err, raisedAt >>
     \/ /\ Throw("d_innerText")
        /\ UNCHANGED << sectionText, isBusinessCard, hasOffer, scanned, analysis,
                        index, log >>
  /\ UNCHANGED << browser, closeCount, calls >>
  /\ UNCHANGED mainVars
  /\ UNCHANGED resolverVars
  /\ UNCHANGED << bankUrl, finalUrl, cardSections >>
  /\ UNCHANGED family

\* lines 113-114: the loop ended without a match.
DetectorNoMatch ==
  /\ pc = "d_loop"
  /\ index > Len(cardSections)
  /\ Logged("No specific business card with the 0% offer was found.")
  /\ analysis' = [found |-> FALSE, analyzedUrl |-> finalUrl, made |-> TRUE]
  /\ pc' = "m_report"
  /\ UNCHANGED << browser, closeCount, pages, err, raisedAt, calls, attempts,
                  opsAfterClose >>
  /\ UNCHANGED mainVars
  /\ UNCHANGED resolverVars
  /\ UNCHANGED << bankUrl, finalUrl, cardSections, index, sectionText,
                  isBusinessCard, hasOffer, scanned >>
  /\ UNCHANGED family

(***************************************************************************)
(* Main execution, end: lines 141-157.                                     *)
(***************************************************************************)
\* lines 141-146: report the verdict.
ReportVerdict ==
  /\ pc = "m_report"
  /\ IF analysis.found
     THEN Logged("SUCCESS! Potential 0% APR Business Credit Card offer found!")
     ELSE Logged("No explicit 0% APR Business Credit Card offer was found.")
  /\ pc' = "finally"
  /\ UNCHANGED << browser, closeCount, pages, err, raisedAt, calls, attempts,
                  opsAfterClose >>
  /\ UNCHANGED mainVars
  /\ UNCHANGED resolverVars
  /\ UNCHANGED detectorVars
  /\ UNCHANGED family

\* lines 152-154: catch (error) { console.error(message) }
Catch ==
  /\ pc = "catch"
  /\ caught' = TRUE
  /\ Logged(err)
  /\ pc' = AfterCatch
  /\ UNCHANGED << browser, closeCount, pages, err, raisedAt, calls, attempts,
                  opsAfterClose >>
  /\ UNCHANGED << argv, bankName, contexts, officialWebsite, uncaught, exitCode >>
  /\ UNCHANGED resolverVars
  /\ UNCHANGED detectorVars
  /\ UNCHANGED family

\* lines 154-157: finally { await browser.close(); console.log(...) }
Finally ==
  /\ pc = "finally"
  /\ Attempt("close")
  /\ browser' = "closed"
  /\ closeCount' = closeCount + 1
  /\ Logged("Browser closed. Scraper finished.")
  /\ pc' = "exit"
  /\ UNCHANGED << pages, err, raisedAt, calls >>
  /\ UNCHANGED mainVars
  /\ UNCHANGED resolverVars
  /\ UNCHANGED detectorVars
  /\ UNCHANGED family

\* The exit status of the process: the module never sets process.exitCode
\* nor calls process.exit, so the status is 1 when an error left the module
\* uncaught and 0 otherwise.
ExitStatus(escaped) == IF escaped THEN 1 ELSE 0

\* The module has run to its end (or an error escaped it): the process exits.
Exit ==
  /\ pc = "exit"
  /\ exitCode' = ExitStatus(uncaught)
  /\ pc' = "done"
  /\ UNCHANGED << browser, closeCount, pages, err, raisedAt, log, calls, attempts,
                  opsAfterClose >>
  /\ UNCHANGED << argv, bankName, contexts, officialWebsite, caught, uncaught >>
  /\ UNCHANGED resolverVars
  /\ UNCHANGED detectorVars
  /\ UNCHANGED family

Next ==
  \/ Launch
  \/ ParseArgs
  \/ NewContext
  \/ NewFdicPage
  \/ CallResolver
  \/ ResolverGoto
  \/ ResolverFill
  \/ ResolverSearch
  \/ ResolverWaitResult
  \/ ResolverCount
  \/ ResolverClickLink
  \/ ResolverWaitModal
  \/ ResolverRaceStart
  \/ TabOpens
  \/ TabLoads
  \/ ClickCompletes
  \/ ClickTimesOut
  \/ EventTimesOut
  \/ ResolverRaceJoin
  \/ ResolverWaitLoad
  \/ ResolverReturnUrl
  \/ CheckWebsite
  \/ NewBankPage
  \/ CallDetector
  \/ DetectorGoto
  \/ DetectorCookie
  \/ DetectorBusinessHop
  \/ DetectorCreditCardHop
  \/ DetectorRecordUrl
  \/ DetectorWaitSections
  \/ DetectorAllSections
  \/ DetectorScanSection
  \/ DetectorNoMatch
  \/ ReportVerdict
  \/ Catch
  \/ Finally
  \/ Exit

Spec == Init /\ [][Next]_vars

\* The steps of the program, and the completion or timeout of the browser
\* operations it awaits. Whether and when the site opens or loads a tab is
\* left to the site.
Progress ==
  \/ Launch
  \/ ParseArgs
  \/ NewContext
  \/ NewFdicPage
  \/ CallResolver
  \/ ResolverGoto
  \/ ResolverFill
  \/ ResolverSearch
  \/ ResolverWaitResult
  \/ ResolverCount
  \/ ResolverClickLink
  \/ ResolverWaitModal
  \/ ResolverRaceStart
  \/ ClickCompletes
  \/ ClickTimesOut
  \/ EventTimesOut
  \/ ResolverRaceJoin
  \/ ResolverWaitLoad
  \/ ResolverReturnUrl
  \/ CheckWebsite
  \/ NewBankPage
  \/ CallDetector
  \/ DetectorGoto
  \/ DetectorCookie
  \/ DetectorBusinessHop
  \/ DetectorCreditCardHop
  \/ DetectorRecordUrl
  \/ DetectorWaitSections
  \/ DetectorAllSections
  \/ DetectorScanSection
  \/ DetectorNoMatch
  \/ ReportVerdict
  \/ Catch
  \/ Finally
  \/ Exit

\* The run under the assumption that the event loop keeps running the
\* program and that every awaited operation completes or times out.
FairSpec == Init /\ [][Next]_vars /\ WF_vars(Progress)

(***************************************************************************)
(* The two indicators as pure functions: texts drawn from bounded          *)
(* families are classified as lines 103-105 classify a section's text.     *)
(***************************************************************************)
DigitChars == <<"0","1","2","3","4","5","6","7","8","9">>

\* The decimal numeral of a natural number.
RECURSIVE Digits(_)
Digits(n) ==
  IF n < 10 THEN <<DigitChars[n + 1]>>
  ELSE Append(Digits(n \div 10), DigitChars[(n % 10) + 1])

\* A letter-case pattern: position i is upper case when the pattern says so,
\* the pattern repeating with period CasePeriod.
CaseMasks == [1..CasePeriod -> BOOLEAN]

ApplyCase(t, mask) ==
  [i \in 1..Len(t) |->
     IF mask[((i - 1) % CasePeriod) + 1] THEN ToUpper(t[i]) ELSE ToLower(t[i])]

S_get == <<"G","e","t"," ">>
S_today == <<" ","t","o","d","a","y">>
S_fee == <<"N","o"," ","a","n","n","u","a","l"," ","f","e","e">>

WhiteSpaces == { <<" ">>, <<"\t">>, <<"\n">>, <<" "," ">> }
Qualifiers == { <<>> } \cup { S_introductory \o w : w \in { <<" ">>, <<"\n">> } }
RateWords == { S_apr, S_interest }

\* Texts that contain "0%" or "zero percent", white space, an optional
\* "introductory" qualifier and "apr" or "interest", in any letter case.
OfferTexts ==
  { ApplyCase(pre \o head \o w \o q \o tail \o post, m) :
      pre \in { <<>>, S_get, <<"1">> },
      head \in { S_0pct, S_zeroPercent },
      w \in WhiteSpaces,
      q \in Qualifiers,
      tail \in RateWords,
      post \in { <<>>, S_today },
      m \in CaseMasks }

\* Texts whose only rate mention is a non-zero percentage followed by APR or
\* interest.
NonZeroRateTexts ==
  { ApplyCase(pre \o Digits(n) \o <<"%">> \o w \o q \o tail, m) :
      pre \in { <<>>, S_get },
      n \in 1..MaxPct,
      w \in { <<" ">> },
      q \in Qualifiers,
      tail \in RateWords,
      m \in CaseMasks }

\* Texts with no rate phrase at all.
PlainTexts ==
  { ApplyCase(t, m) : t \in { T_businessOnly, T_neither, S_fee }, m \in CaseMasks }

FamilyTexts(f) ==
  CASE f = "offer" -> OfferTexts
    [] f = "rate" -> NonZeroRateTexts
    [] f = "plain" -> PlainTexts

InitClassify ==
  /\ InitCommon
  /\ pc = "classify"
  /\ argv = <<>>
  /\ family \in {"offer", "rate", "plain"}
  /\ sectionText \in FamilyTexts(family)

\* lines 103-105: the two tests applied to one text.
ClassifyText ==
  /\ pc = "classify"
  /\ isBusinessCard' = businessRegex(sectionText)
  /\ hasOffer' = offerRegex(sectionText)
  /\ pc' = "classified"
  /\ UNCHANGED << browser, closeCount, pages, err, raisedAt, log, calls, attempts,
                  opsAfterClose >>
  /\ UNCHANGED mainVars
  /\ UNCHANGED resolverVars
  /\ UNCHANGED << bankUrl, finalUrl, cardSections, index, sectionText, scanned,
                  analysis >>
  /\ UNCHANGED family

NextClassify == ClassifyText

SpecClassify == InitClassify /\ [][NextClassify]_vars

(***************************************************************************)
(* Properties.                                                             *)
(***************************************************************************)
ResolverSteps ==
  { "r_goto", "r_fill", "r_search", "r_waitResult", "r_count", "r_clickLink",
    "r_modal", "r_waitEvent", "r_continue", "r_load", "r_url" }

DetectorSteps ==
  { "d_goto", "d_cookie", "d_business", "d_creditCard", "d_url", "d_wait",
    "d_all", "d_innerText" }

Launched == browser # "none"

\* C1: on every run in which the browser was launched, whatever its outcome,
\* browser.close() is called exactly once before the run ends, and no step
\* drives the browser after it was closed.
C1_BrowserClosedExactlyOnce ==
  /\ closeCount <= 1
  /\ ~opsAfterClose
  /\ (browser = "closed") = (closeCount = 1)
  /\ (pc = "done" /\ Launched) => (browser = "closed" /\ closeCount = 1)

\* C1 witness: a run that ended through the fatal path of the tab capture.
C1_Witness ==
  /\ pc = "done"
  /\ raisedAt = "r_waitEvent"
  /\ caught
  /\ browser = "closed"
  /\ closeCount = 1

\* C2 as claimed: when the configuration error is raised no browser was
\* launched, no context or page exists, nothing was navigated and neither
\* component ran.
C2_ConfigErrorBeforeBrowser ==
  raisedAt = "args" =>
    /\ browser = "none"
    /\ attempts["launch"] = 0
    /\ contexts = 0
    /\ \A p \in PageIds : pages[p].origin = "none"
    /\ calls = <<>>

\* C3 as claimed: a run that ends in a fatal condition exits non-zero, a run
\* that ends with a verdict or a Resolver absence exits with status zero.
C3_ExitStatus ==
  pc = "done" =>
    /\ (raisedAt # Null) => (exitCode # 0)
    /\ (raisedAt = Null) => (exitCode = 0)

\* C4: when the first result has zero primary-website links the Resolver
\* returns absent, raises nothing, and never clicks a link, waits for the
\* overlay or waits for a new page.
C4_ZeroLinksReturnsAbsent ==
  count = 0 =>
    /\ resolverResult = "absent"
    /\ officialWebsite = Null
    /\ raisedAt \notin ResolverSteps
    /\ \A st \in {"r_clickLink", "r_modal", "r_waitEvent", "r_continue", "r_load", "r_url"} :
         attempts[st] = 0
    /\ ~listening
    /\ clickState = "idle"
    /\ pages["newPage"].origin = "none"

\* C4 witness: a finished run whose first result had no link.
C4_Witness ==
  /\ pc = "done"
  /\ count = 0
  /\ resolverResult = "absent"

\* C5: the components run in the order Resolver, Offer Detector, each at
\* most once; the Offer Detector starts only after the Resolver returned a
\* present URL and receives exactly that URL; after an absent result the
\* Offer Detector never starts, the run reports that no website was found and
\* ends without going through the fatal path.
C5_ResolverThenDetector ==
  /\ calls \in { <<>>, <<"R">>, <<"R", "D">> }
  /\ ("R" \notin { calls[k] : k \in 1..Len(calls) }) =>
       (\A st \in ResolverSteps : attempts[st] = 0)
  /\ (calls # <<"R", "D">>) =>
       (\A st \in DetectorSteps : attempts[st] = 0)
  /\ (calls = <<"R", "D">>) =>
       /\ resolverResult = "url"
       /\ officialWebsite # Null
       /\ officialWebsite = pages["newPage"].url
       /\ bankUrl = officialWebsite
       /\ pc \notin { "r_call", "r_goto", "r_fill", "r_search", "r_waitResult",
                      "r_count", "r_clickLink", "r_modal", "r_race", "r_load",
                      "r_url" }
  /\ (resolverResult = "absent" /\ pc = "done") =>
       /\ calls = <<"R">>
       /\ \E k \in 1..Len(log) : log[k] = "Could not find a website"
       /\ ~caught
       /\ err = Null

\* C5 witness: the Offer Detector was started with the URL the Resolver
\* returned.
C5_Witness ==
  /\ calls = <<"R", "D">>
  /\ bankUrl \in SiteUrls
  /\ pc = "done"

\* Both indicators match the text t.
MatchesBoth(t) == businessRegex(t) /\ offerRegex(t)

\* C6: a verdict with found = true comes with one scanned section whose text
\* matches both the business and the offer indicator; when every section of
\* the page matches at most one of them the verdict has found = false.
C6_ConjunctionRule ==
  analysis.made =>
    /\ analysis.found =>
         \E i \in scanned : i \in 1..Len(cardSections) /\ MatchesBoth(cardSections[i])
    /\ (\A i \in 1..Len(cardSections) : ~MatchesBoth(cardSections[i])) =>
         ~analysis.found

\* C6 witness: the indicators are spread over two sections and the verdict
\* is negative.
C6_Witness ==
  /\ analysis.made
  /\ cardSections = <<T_businessOnly, T_offerOnly>>
  /\ scanned = {1, 2}
  /\ ~analysis.found

\* C7 as claimed: every execution of the Offer Detector ends by returning a
\* verdict, never by raising.
C7_AlwaysVerdict ==
  (pc = "done" /\ calls = <<"R", "D">>) =>
    (analysis.made /\ raisedAt \notin DetectorSteps)

\* C7 amended: every execution of the Offer Detector ends either by
\* returning a verdict or by raising the timeout of one of its two unguarded
\* waiting operations, the initial navigation or a section's text read; a
\* failure of the consent click, of either hop or of the structural wait
\* never makes it raise.
C7_VerdictOrUnguardedTimeout ==
  /\ raisedAt \notin { "d_cookie", "d_business", "d_creditCard", "d_url", "d_wait", "d_all" }
  /\ (pc = "done" /\ calls = <<"R", "D">>) =>
       \/ analysis.made /\ raisedAt = Null /\ ~caught
       \/ ~analysis.made /\ raisedAt \in { "d_goto", "d_innerText" } /\ caught

\* C7 witness: the consent click and the first hop failed and a verdict was
\* still returned.
C7_Witness ==
  /\ pc = "done"
  /\ analysis.made
  /\ \E k \in 1..Len(log) : log[k] = "No cookie banner found, or it was not clickable."
  /\ \E k \in 1..Len(log) : log[k] = "Could not navigate to a specific credit card section"

\* C8: the offer indicator matches every text that contains "0%" or "zero
\* percent", white space, an optional "introductory" qualifier followed by
\* white space, and "apr" or "interest", whatever the letter case.
C8_OfferIndicatorMatches ==
  (pc = "classified" /\ family = "offer") => hasOffer

\* C8 witness: "ZERO PERCENT APR" was classified.
C8_Witness ==
  /\ pc = "classified"
  /\ family = "offer"
  /\ sectionText = <<"Z","E","R","O"," ","P","E","R","C","E","N","T"," ","A","P","R">>
  /\ hasOffer

\* C9 as claimed: the offer indicator matches neither a text whose only rate
\* mention is a non-zero percentage followed by APR or interest, nor a text
\* with no rate phrase.
C9_NoMatchOnNonZeroRate ==
  (pc = "classified" /\ family \in {"rate", "plain"}) => ~hasOffer

\* C11: a present Resolver result is the current URL of the page yielded by
\* the 'page' event, a bank site URL as the browser reports it, read after
\* that page finished loading; it is never the URL of the search page nor
\* the blank URL a tab starts with.
C11_ResolvedSiteFromNewPage ==
  (resolverResult = "url") =>
    /\ captured = "newPage"
    /\ pages[captured].origin = "popup"
    /\ pages[captured].loaded
    /\ attempts["r_load"] = 1
    /\ officialWebsite = pages[captured].url
    /\ officialWebsite \in SiteUrls
    /\ officialWebsite # pages["fdicPage"].url
    /\ officialWebsite \notin {Null, Blank, FdicUrl}

\* C11 witness: the Resolver returned the URL of the captured tab.
C11_Witness ==
  /\ resolverResult = "url"
  /\ officialWebsite = "https://www.acmebank.com"
  /\ pages["fdicPage"].url = FdicUrl

RequiredResolverWaits == { "r_waitResult", "r_modal", "r_waitEvent", "r_continue" }

\* C12: when a required wait of the Resolver fails (first result entry,
\* overlay, new page after the continue click) the Resolver raises a timeout
\* that reaches the top-level catch; it returns neither absent nor a URL and
\* the Offer Detector is never started.
C12_RequiredWaitFailureIsFatal ==
  (raisedAt \in RequiredResolverWaits) =>
    /\ resolverResult = "raised"
    /\ err = "TimeoutError"
    /\ officialWebsite = Null
    /\ calls = <<"R">>
    /\ \A st \in DetectorSteps : attempts[st] = 0
    /\ pages["bankPage"].origin = "none"
    /\ pc \in { "catch", "finally", "exit", "done" }
    /\ (pc # "catch") => (caught /\ \E k \in 1..Len(log) : log[k] = "TimeoutError")

\* C12 witness: the overlay never appeared and the run ended.
C12_Witness ==
  /\ raisedAt = "r_modal"
  /\ pc = "done"
  /\ caught

\* C13: the waiter for the 'page' event is registered no later than the
\* continue click is issued, so a tab opened at any moment after the click
\* (while the wait has not timed out) is captured; the Resolver goes on only
\* when the event fired and the click completed, with the page the event
\* yielded.
C13_TabCapture ==
  /\ (clickState # "idle") => (attempts["r_waitEvent"] = 1 /\ attempts["r_continue"] = 1)
  /\ (clickState = "pending" /\ pc = "r_race") => listening
  /\ (pages["newPage"].origin = "popup" /\ raisedAt # "r_waitEvent") =>
       captured = "newPage"
  /\ (captured # Null) => (captured = "newPage" /\ pages[captured].origin = "popup")
  /\ (pc \in {"r_load", "r_url"} \/ resolverResult = "url") =>
       (captured = "newPage" /\ clickState = "done")

\* C13 witness: the tab opened while the click was still pending and was
\* captured before the click completed.
C13_Witness ==
  /\ pc = "r_race"
  /\ clickState = "pending"
  /\ captured = "newPage"
  /\ pages["newPage"].origin = "popup"

\* The console line was printed.
InLog(line) == \E k \in 1..Len(log) : log[k] = line

BusinessHopDone == InLog("Navigated to Business section.")
CreditCardHopDone == InLog("Navigated to Credit Cards section.")

\* The URL of the page after the optional navigation, from the URL loaded
\* in step 1 and the hops that succeeded.
UrlAfterHops ==
  IF ~BusinessHopDone THEN bankUrl
  ELSE IF ~CreditCardHopDone THEN BusinessPage(bankUrl)
  ELSE CreditCardPage(BusinessPage(bankUrl))

\* C14: the analyzedUrl of a verdict is the page's URL after the optional
\* navigation, recorded once before the scan: the URL loaded in step 1 when
\* the business hop failed (the credit-card hop is then not attempted), the
\* business page when only the credit-card hop failed, the credit-card page
\* when both succeeded; a failed hop never raises.
C14_AnalyzedUrlAfterHops ==
  /\ raisedAt \notin {"d_business", "d_creditCard"}
  /\ attempts["d_url"] <= 1
  /\ (attempts["d_creditCard"] = 1) => BusinessHopDone
  /\ CreditCardHopDone => BusinessHopDone
  /\ (attempts["d_wait"] > 0 \/ attempts["d_innerText"] > 0) => attempts["d_url"] = 1
  /\ (attempts["d_url"] = 1) => (finalUrl = UrlAfterHops)
  /\ analysis.made => (analysis.analyzedUrl = finalUrl /\ analysis.analyzedUrl = UrlAfterHops)

\* C14 witness: the business hop succeeded, the credit-card hop failed and
\* the verdict names the business page.
C14_Witness ==
  /\ analysis.made
  /\ BusinessHopDone
  /\ ~CreditCardHopDone
  /\ attempts["d_creditCard"] = 1
  /\ analysis.analyzedUrl = "https://examplebank.com/business"

StructuralWaitTimedOut == InLog("Timed out waiting for card sections to appear.")

\* C15: when no card/offer element appears within the wait bound the Offer
\* Detector returns { found: false, analyzedUrl } without raising and without
\* enumerating or reading any section.
C15_NoStructureMeansNoOffer ==
  StructuralWaitTimedOut =>
    /\ analysis.made
    /\ ~analysis.found
    /\ analysis.analyzedUrl = finalUrl
    /\ finalUrl = UrlAfterHops
    /\ attempts["d_all"] = 0
    /\ attempts["d_innerText"] = 0
    /\ scanned = {}
    /\ raisedAt = Null
    /\ pc \in {"m_report", "finally", "exit", "done"}

\* C15 witness: a finished run whose structural wait timed out.
C15_Witness ==
  /\ StructuralWaitTimedOut
  /\ pc = "done"
  /\ analysis.made
  /\ ~analysis.found

\* C16: the sections are read in document order; found = true is returned at
\* the first section matching both indicators and no later section is read;
\* found = false is returned only after every section was read. So, after a
\* successful structural wait, found = true exactly when some section matches
\* both indicators.
C16_ScanOrderAndCompleteness ==
  /\ scanned = 1..Cardinality(scanned)
  /\ Cardinality(scanned) <= Len(cardSections)
  /\ (analysis.made /\ attempts["d_all"] = 1) =>
       /\ analysis.found =>
            /\ scanned # {}
            /\ MatchesBoth(cardSections[Cardinality(scanned)])
            /\ \A i \in 1..(Cardinality(scanned) - 1) : ~MatchesBoth(cardSections[i])
       /\ ~analysis.found => scanned = 1..Len(cardSections)
       /\ analysis.found = (\E i \in 1..Len(cardSections) : MatchesBoth(cardSections[i]))
  /\ (~analysis.made) =>
       (\A i \in scanned : ~MatchesBoth(cardSections[i]))

\* C16 witness: the first of two sections matched and the second was not
\* read.
C16_Witness ==
  /\ analysis.made
  /\ analysis.found
  /\ cardSections = <<T_both, T_businessOnly>>
  /\ scanned = {1}

\* C17: whether the consent click succeeds or fails, the Offer Detector
\* raises nothing there and goes on to the optional navigation.
C17_ConsentIsBestEffort ==
  (attempts["d_cookie"] = 1) =>
    /\ raisedAt # "d_cookie"
    /\ err = Null \/ raisedAt \in {"d_innerText"}
    /\ pc = "d_business" \/ attempts["d_business"] = 1
    /\ InLog("Cookie banner accepted.")
         \/ InLog("No cookie banner found, or it was not clickable.")

\* C17 witness: the consent click failed and the business hop was attempted.
C17_Witness ==
  /\ InLog("No cookie banner found, or it was not clickable.")
  /\ attempts["d_business"] = 1
  /\ BusinessHopDone

\* C18: every step is attempted at most once, a failed step is never tried
\* again, each section's text is read at most once, and neither component is
\* invoked more than once.
C18_NoRetries ==
  /\ \A st \in Steps \ {"d_innerText"} : attempts[st] <= 1
  /\ attempts["d_innerText"] =
       Cardinality(scanned) + (IF raisedAt = "d_innerText" THEN 1 ELSE 0)
  /\ attempts["d_innerText"] <= Len(cardSections)
  /\ (raisedAt \in Steps) =>
       (attempts[raisedAt] >= 1 /\ pc \in {"catch", "finally", "exit", "done"})
  /\ Len(calls) = Cardinality({ calls[k] : k \in 1..Len(calls) })

\* C18 witness: the consent click failed once and the run went on to read
\* two sections and end.
C18_Witness ==
  /\ pc = "done"
  /\ InLog("No cookie banner found, or it was not clickable.")
  /\ attempts["d_cookie"] = 1
  /\ attempts["d_innerText"] = 2

AllocatedPages == { p \in PageIds : pages[p].origin = "allocated" }

\* The page rules of C19, common to the claim and to its amended form.
PageAllocationRules ==
  /\ contexts <= 1
  /\ Cardinality(AllocatedPages) <= 2
  /\ Cardinality(AllocatedPages) = attempts["newFdicPage"] + attempts["newBankPage"]
  /\ AllocatedPages \subseteq {"fdicPage", "bankPage"}
  /\ (AllocatedPages # {}) => (contexts = 1)
  /\ ("bankPage" \in AllocatedPages) =>
       ("fdicPage" \in AllocatedPages /\ resolverResult = "url")
  /\ (pc \in {"d_call", "d_goto"}) =>
       (pages["bankPage"].url = Blank /\ pages["bankPage"].users = {})
  /\ "D" \notin pages["fdicPage"].users
  /\ "D" \notin pages["newPage"].users
  /\ "R" \notin pages["bankPage"].users
  /\ (\E st \in DetectorSteps : attempts[st] > 0) =>
       pages["bankPage"].users = {"D"}

\* C19 as claimed: every run creates exactly one browser context, and
\* allocates at most two pages, the Resolver's first and the Offer
\* Detector's only after a present URL, each component on its own page.
C19_OneContextTwoPages ==
  /\ PageAllocationRules
  /\ (pc = "done") => (contexts = 1)

\* C19 amended: a run creates at most one browser context, and exactly one
\* whenever the browser was launched and the bank name is valid; the page
\* rules are as claimed.
C19_AtMostOneContextTwoPages ==
  /\ PageAllocationRules
  /\ (pc = "done" /\ raisedAt \notin {"launch", "args"}) => (contexts = 1)
  /\ (raisedAt \in {"launch", "args"}) => (contexts = 0 /\ AllocatedPages = {})

\* C19 witness: both pages were allocated and the Offer Detector worked on
\* its own page only.
C19_Witness ==
  /\ pc = "done"
  /\ contexts = 1
  /\ AllocatedPages = {"fdicPage", "bankPage"}
  /\ pages["bankPage"].users = {"D"}
  /\ pages["fdicPage"].users = {"R"}
  /\ pages["newPage"].users = {"R"}

\* C20: when every awaited operation completes or times out, every run
\* reaches its final state: the process has exited and the browser, if it
\* was launched, is closed.
C20_Terminates ==
  <>(pc = "done" /\ exitCode # -1 /\ (Launched => browser = "closed"))

\* C20 witness: a run that read every section of the page and ended.
C20_Witness ==
  /\ pc = "done"
  /\ browser = "closed"
  /\ Len(cardSections) >= 2
  /\ scanned = 1..Len(cardSections)

====
